---- MODULE Spec2Model ----
(***************************************************************************)
(* Points / credits purchase backend (S-Hacker-I/testi).                   *)
(*                                                                         *)
(* The repository holds several revisions of the same server.  The model   *)
(* picks one revision ("variant") at start-up and then serves HTTP         *)
(* requests against it.  Code between two awaits runs atomically (Node's   *)
(* single-threaded event loop); every await on the document store or on    *)
(* the payment gateway is a separate step that other requests interleave  *)
(* with.                                                                   *)
(*                                                                         *)
(*   srv1  src/server.js 185-548     webhook 297-327, credit 434-477       *)
(*   srv3  src/server.js 635-1004    webhook 708-748, credit 855-923       *)
(*   srv4  src/server.js 1006-1262   webhook 1037-1075, credit 1174-1222   *)
(*   api   src/api/webhook.js        webhook 40-73, credit 15-38           *)
(*   p4    src/unnamed/part_004      webhook 218-243, credit 352-407       *)
(*                                                                         *)
(* The older credits service (check-credits, payment-success,              *)
(* generate-image) keeps one balance per user id in a JSON file, a         *)
(* key-value store or a Firestore collection ("backend"):                  *)
(*                                                                         *)
(*   file1 src/server.js 1-184       JSON file, no generate-image          *)
(*   file4 src/unnamed/part_004 1-195   JSON file                          *)
(*   kv    src/api/check-credits.js, src/api/payment-success.js,           *)
(*         src/unnamed/part_001      Vercel KV                             *)
(*   fs2   src/unnamed/part_002      Firestore collection credits          *)
(***************************************************************************)
EXTENDS Integers, Sequences, FiniteSets, TLC

VARIABLES
    variant,            \* the server revision that is deployed
    users,              \* Firestore collection users: uid -> document
    purchases,          \* Firestore collection purchases
    userPurchases,      \* Firestore subcollections users/{uid}/purchases
    pointsTransactions, \* Firestore collection pointsTransactions
    failedPayments,     \* Firestore collection failedPayments
    reqs,               \* webhook / test-webhook requests, in order of arrival
    checkouts,          \* checkout requests served, in order of arrival
    backend,            \* the revision of the credits service that is deployed
    credits,            \* the credits store: uid -> stored value
    fileExists,         \* the JSON file credits.json exists
    creqs               \* requests to the credits service, in order of arrival

pointsVars == <<variant, users, purchases, userPurchases, pointsTransactions,
                failedPayments, reqs, checkouts>>

creditsVars == <<backend, credits, fileExists, creqs>>

vars == <<pointsVars, creditsVars>>

store == <<users, purchases, userPurchases, pointsTransactions, failedPayments>>

---------------------------------------------------------------------------
(* Bounds of the model *)

\* HTTP requests served in one run (webhook, test-webhook and checkout together)
MaxRequests == 2

---------------------------------------------------------------------------
(* JavaScript values *)

\* A JS number is Num(n) or NaN; Undef is the value of a missing field.
Num(n) == [k |-> "num", n |-> n]
NaN == [k |-> "nan", n |-> 0]
Undef == [k |-> "undef", n |-> 0]

\* !v for a number or undefined: undefined, 0 and NaN are falsy.
Falsy(v) == v.k # "num" \/ v.n = 0

\* v || 0
OrZero(v) == IF Falsy(v) THEN Num(0) ELSE v

\* a + b on numbers: NaN is absorbing.
Plus(a, b) == IF a.k = "num" /\ b.k = "num" THEN Num(a.n + b.n) ELSE NaN

\* a < b: every comparison with NaN is false.
Less(a, b) == a.k = "num" /\ b.k = "num" /\ a.n < b.n

\* A string is a sequence of characters; UndefStr stands for a missing string.
UndefStr == <<"undefined">>
DigitChars == <<"0", "1", "2", "3", "4", "5", "6", "7", "8", "9">>
IsDigit(c) == \E i \in 1..10 : DigitChars[i] = c
DigitVal(c) == (CHOOSE i \in 1..10 : DigitChars[i] = c) - 1

\* !s for a string: undefined and "" are falsy ("0" is truthy).
FalsyStr(s) == s = UndefStr \/ s = <<>>

RECURSIVE LeadingDigits(_)
LeadingDigits(s) ==
    IF s = <<>> \/ ~IsDigit(Head(s)) THEN <<>>
    ELSE <<Head(s)>> \o LeadingDigits(Tail(s))

RECURSIVE DigitsValue(_, _)
DigitsValue(ds, acc) ==
    IF ds = <<>> THEN acc
    ELSE DigitsValue(Tail(ds), acc * 10 + DigitVal(Head(ds)))

\* parseInt(s, 10): optional sign, then the longest run of digits; NaN when
\* there is none (parseInt(undefined) parses the text "undefined").
ParseInt(s) ==
    LET signed == s # <<>> /\ Head(s) \in {"-", "+"}
        body == IF signed THEN Tail(s) ELSE s
        ds == LeadingDigits(body)
        v == DigitsValue(ds, 0)
    IN  IF ds = <<>> THEN NaN
        ELSE IF signed /\ Head(s) = "-" THEN Num(0 - v) ELSE Num(v)

RECURSIVE NatToString(_)
NatToString(n) ==
    IF n < 10 THEN <<DigitChars[n + 1]>>
    ELSE NatToString(n \div 10) \o <<DigitChars[(n % 10) + 1]>>

\* Mutant of NumToString: points.toLocaleString(), which groups the digits
\* of 1000 and above ("5,000").
NumToLocaleString(n) ==
    IF n < 0 THEN <<"-">> \o NatToString(0 - n)
    ELSE IF n < 1000 THEN NatToString(n)
    ELSE NatToString(n \div 1000) \o <<",">>
            \o NatToString((n % 1000) \div 100)
            \o NatToString((n % 100) \div 10) \o NatToString(n % 10)

\* points.toString() for an integer
NumToString(n) == IF n < 0 THEN <<"-">> \o NatToString(0 - n) ELSE NatToString(n)

---------------------------------------------------------------------------
(* The payment gateway: checkout sessions and the events it signs *)

Completed == "checkout.session.completed"
OtherType == "payment_intent.succeeded"
EventTypes == {Completed, OtherType}

NoUser == "undefined"
TestUser == "test_user"
UserIds == {"u1", "u2", TestUser}

\* One checkout session as the gateway reports it in an event.
Sess(uid, ref, pts, status, amount) ==
    [ userId |-> uid, client_reference_id |-> ref, points |-> pts,
      payment_status |-> status, amount_total |-> amount,
      payment_intent |-> TRUE ]

\* The sessions of the gateway account.  A redelivered event carries the same
\* session, so a session id fixes the metadata.  cs_a, cs_new and cs_unpaid
\* are what the checkout handlers create (metadata only); cs_b also carries a
\* client_reference_id; the others carry metadata the handlers must validate.
Sessions ==
    [ cs_a       |-> Sess("u1", NoUser, <<"1", "0">>, "paid", 100),
      cs_b       |-> Sess("u1", "u1", <<"2", "0">>, "paid", 200),
      cs_new     |-> Sess("u2", NoUser, <<"1", "0">>, "paid", 100),
      cs_unpaid  |-> Sess("u1", NoUser, <<"1", "0">>, "unpaid", 100),
      cs_nopts   |-> Sess("u1", "u1", UndefStr, "paid", 100),
      cs_zero    |-> Sess("u1", "u1", <<"0">>, "paid", 0),
      cs_neg     |-> Sess("u1", "u1", <<"-", "5">>, "paid", 100),
      cs_abc     |-> Sess("u1", "u1", <<"a", "b", "c">>, "paid", 100),
      cs_nouser  |-> Sess(NoUser, NoUser, <<"1", "0">>, "paid", 100) ]

SessionIds == DOMAIN Sessions

\* The session GET /api/test-webhook builds: no payment_status, no
\* payment_intent, metadata {userId: 'test_user', points: '10'}.
TestSessionId == "cs_test"
TestSession ==
    [ userId |-> TestUser, client_reference_id |-> NoUser,
      points |-> <<"1", "0">>, payment_status |-> "undefined",
      amount_total |-> 1000, payment_intent |-> FALSE ]

\* What may be posted to the webhook: <<signature valid, event type, session>>.
\* An event of another type carries no checkout session of interest.
\* A forged request (signature invalid) copies a plausible session.
Deliveries ==
    {<<TRUE, Completed, sid>> : sid \in SessionIds}
        \cup {<<FALSE, Completed, sid>> : sid \in {"cs_a", "cs_nopts"}}
        \cup {<<TRUE, OtherType, "cs_a">>}

SessionOf(r) == IF r.route = "test" THEN TestSession ELSE Sessions[r.sid]

---------------------------------------------------------------------------
(* The revisions *)

WebhookVariants == {"srv1", "srv3", "srv4", "api", "p4"}

\* res.json({received: true}) is sent before the credit is processed
AcksFirst(v) == v \in {"srv1", "srv3", "srv4"}

\* the webhook tests session.payment_status === 'paid'
ChecksPaid(v) == v \in {"srv1", "srv3"}

\* the webhook stores a failedPayments document when the credit throws
CapturesFailure(v) == v \in {"srv3", "srv4"}

\* the revision serves GET /api/test-webhook
HasTestWebhook(v) == v \in {"srv1", "srv3"}

\* the user id the credit goes to
CreditUser(v, s) == IF v = "api" THEN s.client_reference_id ELSE s.userId

\* the number of points credited
PointsToAdd(v, s) ==
    IF v = "api"
    THEN (IF FalsyStr(s.points) THEN Num(0) ELSE ParseInt(s.points))
    ELSE ParseInt(s.points)

\* What handleSuccessfulPayment throws before it starts the transaction
\* ("" when it throws nothing).
PreCheck(v, s) ==
    CASE v = "api" ->
            IF CreditUser(v, s) = NoUser THEN "No user ID provided in session"
            ELSE IF Falsy(PointsToAdd(v, s))
            THEN "No points value provided in session metadata"
            ELSE ""
      [] v = "p4" ->
            IF s.userId = NoUser \/ FalsyStr(s.points) THEN "Missing metadata"
            ELSE ""
      [] OTHER -> ""

---------------------------------------------------------------------------
(* The document store *)

NoDoc == [exists |-> FALSE, points |-> Undef, ver |-> 0]

\* The balance of the one account that exists when the run starts.
InitialPoints == 5

\* A purchase document; id stands for the generated document id (the request
\* that wrote it).
PurchaseRec(i, uid, pts, sid, s) ==
    [ id |-> i, userId |-> uid, points |-> pts, amount |-> s.amount_total,
      sessionId |-> sid, status |-> "completed" ]

\* The {dummy: true} documents srv3 adds to an empty collection.
DummyPurchase(i) ==
    [ id |-> i, userId |-> NoUser, points |-> Undef, amount |-> 0,
      sessionId |-> "undefined", status |-> "dummy" ]
DummyTransaction(i) ==
    [ id |-> i, userId |-> NoUser, points |-> Undef, type |-> "dummy" ]

\* The body of the transaction, run on the snapshot transaction.get returned:
\* the error it throws ("" for none) and the writes it buffers.
TxBody(v, i, sid, s, snap) ==
    LET uid == CreditUser(v, s)
        p == PointsToAdd(v, s)
        rec == PurchaseRec(i, uid, p, sid, s)
    IN  [ err |->
            CASE v \in {"srv4", "p4"} /\ ~snap.exists -> "User not found"
              [] v = "api" /\ ~snap.exists -> "User document not found"
              [] v = "srv3" /\ ~s.payment_intent ->
                    "Cannot use undefined as a Firestore value"
              [] OTHER -> "",
          points |->
            IF snap.exists THEN Plus(OrZero(snap.points), p) ELSE p,
          purchases |->
            IF v \in {"srv1", "srv3", "srv4"} THEN <<rec>> ELSE <<>>,
          userPurchases |->
            IF v \in {"srv4", "p4"} THEN <<rec>> ELSE <<>>,
          pointsTransactions |->
            IF v = "srv3"
            THEN <<[id |-> i, userId |-> uid, points |-> p, type |-> "purchase"]>>
            ELSE <<>> ]

\* Mutant of Commit: the balance is written, the ledger documents are not.
CommitBalanceOnly(uid, w) ==
    /\ users' = [users EXCEPT ![uid] =
                    [exists |-> TRUE, points |-> w.points, ver |-> @.ver + 1]]
    /\ UNCHANGED <<purchases, userPurchases, pointsTransactions>>

\* The commit of a transaction: all buffered writes, or none.
Commit(uid, w) ==
    /\ users' = [users EXCEPT ![uid] =
                    [exists |-> TRUE, points |-> w.points, ver |-> @.ver + 1]]
    /\ purchases' = purchases \o w.purchases
    /\ userPurchases' = userPurchases \o w.userPurchases
    /\ pointsTransactions' = pointsTransactions \o w.pointsTransactions

---------------------------------------------------------------------------
(* Requests *)

Served == Len(reqs) + Len(checkouts)

InFlight == {i \in DOMAIN reqs : reqs[i].pc # "done"}

\* the invocations still processing session sid
InFlightFor(sid) == {i \in InFlight : reqs[i].sid = sid}

NewReq(route, sigOK, type, sid) ==
    [ route |-> route, sigOK |-> sigOK, type |-> type, sid |-> sid,
      pc |-> "done", status |-> 0, outcome |-> "pending", snap |-> NoDoc,
      err |-> "", dummies |-> {}, overlap |-> InFlightFor(sid),
      attempts |-> 0, sent |-> 0, late |-> FALSE ]

\* Mutant of Send: a send after the response went out puts a second
\* response on the connection.
SendAgain(r, status) == [r EXCEPT !.status = status, !.sent = @ + 1]

\* res.json(...) and res.status(s).send(...): the response goes out, unless
\* one already went out for this request; then the call throws
\* ERR_HTTP_HEADERS_SENT inside the async handler and nothing is sent.
Send(r, status) ==
    IF r.sent = 0 THEN [r EXCEPT !.status = status, !.sent = 1]
    ELSE [r EXCEPT !.late = TRUE]

\* The request after handleSuccessfulPayment threw err: what the caller's
\* catch does.  In srv1 that is the outer catch, whose res.status(400).send
\* comes after {received: true} was sent.
Failed(v, r, err) ==
    LET q == [r EXCEPT !.err = err, !.snap = NoDoc, !.dummies = {}]
        end == [q EXCEPT !.pc = "done", !.outcome = "failed"]
    IN  CASE r.route = "test" -> Send(end, 500)
          [] CapturesFailure(v) -> [q EXCEPT !.pc = "fail"]
          [] v = "srv1" -> Send(end, 400)
          [] v = "api" -> Send(end, 500)
          [] OTHER -> Send(end, 400)

\* The request after handleSuccessfulPayment returned.
Succeeded(v, r) ==
    LET end == [r EXCEPT !.pc = "done", !.outcome = "credited", !.snap = NoDoc]
    IN  IF r.route = "webhook" /\ AcksFirst(v) THEN end ELSE Send(end, 200)

\* The call of handleSuccessfulPayment, up to its first await.
Invoke(v, r) ==
    LET pre == PreCheck(v, SessionOf(r))
        q == [r EXCEPT !.attempts = @ + 1]
    IN  IF pre # "" THEN Failed(v, q, pre)
        ELSE [q EXCEPT !.pc = IF v = "srv3" THEN "ensure" ELSE "get"]

\* Mutant of Verified: the result of the signature check is ignored.
VerifiedAlways(sigOK) == TRUE

\* constructEvent: the event is returned only for a valid signature.
Verified(sigOK) == sigOK

\* Mutant of IsSettlementEvent: every event type is processed as a settlement.
IsSettlementEventAlways(type) == TRUE

\* event.type === 'checkout.session.completed'
IsSettlementEvent(type) == type = Completed

\* POST /api/webhook, up to the first await of the handler.
WebhookArrive(sigOK, type, sid) ==
    /\ Served < MaxRequests
    /\ LET v == variant
           r == NewReq("webhook", sigOK, type, sid)
           acked == IF AcksFirst(v) THEN Send(r, 200) ELSE r
           ignored == [Send(r, 200) EXCEPT !.outcome = "ignored"]
       IN  reqs' = Append(reqs,
              IF ~Verified(sigOK)
              THEN [Send(r, 400) EXCEPT !.outcome = "rejected"]
              ELSE IF ~IsSettlementEvent(type) THEN ignored
              ELSE IF ChecksPaid(v) /\ Sessions[sid].payment_status # "paid"
              THEN ignored
              ELSE Invoke(v, acked))
    /\ UNCHANGED <<variant, store, checkouts>>

\* GET /api/test-webhook: the credit of a session the handler builds itself.
TestWebhookArrive ==
    /\ Served < MaxRequests
    /\ HasTestWebhook(variant)
    /\ reqs' = Append(reqs,
          Invoke(variant, NewReq("test", FALSE, Completed, TestSessionId)))
    /\ UNCHANGED <<variant, store, checkouts>>

\* srv3, before the transaction: each collection is probed with limit(1).get()
\* (users always holds a document here, so it is never found empty) ...
ProbeCollections(i) ==
    /\ reqs[i].pc = "ensure"
    /\ LET empty == (IF purchases = <<>> THEN {"purchases"} ELSE {})
                        \cup (IF pointsTransactions = <<>>
                              THEN {"pointsTransactions"} ELSE {})
       IN  reqs' = [reqs EXCEPT ![i].dummies = empty,
                                ![i].pc = IF empty = {} THEN "get" ELSE "dummy"]
    /\ UNCHANGED <<variant, store, checkouts>>

\* ... a collection found empty gets a dummy document ...
AddDummies(i) ==
    /\ reqs[i].pc = "dummy"
    /\ purchases' = IF "purchases" \in reqs[i].dummies
                    THEN Append(purchases, DummyPurchase(i)) ELSE purchases
    /\ pointsTransactions' =
            IF "pointsTransactions" \in reqs[i].dummies
            THEN Append(pointsTransactions, DummyTransaction(i))
            ELSE pointsTransactions
    /\ reqs' = [reqs EXCEPT ![i].pc = "cleanup"]
    /\ UNCHANGED <<variant, users, userPurchases, failedPayments, checkouts>>

\* ... which is deleted again.
DeleteDummies(i) ==
    /\ reqs[i].pc = "cleanup"
    /\ LET Kept(d) == ~(d.id = i /\ d.userId = NoUser /\ d.points = Undef)
       IN  /\ purchases' = SelectSeq(purchases, Kept)
           /\ pointsTransactions' = SelectSeq(pointsTransactions, Kept)
    /\ reqs' = [reqs EXCEPT ![i].pc = "get", ![i].dummies = {}]
    /\ UNCHANGED <<variant, users, userPurchases, failedPayments, checkouts>>

\* transaction.get(userRef) and the body that follows it.
TxGet(i) ==
    /\ reqs[i].pc = "get"
    /\ LET v == variant
           r == reqs[i]
           s == SessionOf(r)
           uid == CreditUser(v, s)
       IN  reqs' = [reqs EXCEPT ![i] =
              IF uid = NoUser THEN Failed(v, r, "invalid document path")
              ELSE LET b == TxBody(v, i, r.sid, s, users[uid])
                   IN  IF b.err # "" THEN Failed(v, r, b.err)
                       ELSE [r EXCEPT !.pc = "commit", !.snap = users[uid]]]
    /\ UNCHANGED <<variant, store, checkouts>>

\* Mutant of TxCommit: the writes computed from the snapshot are applied
\* even when the document changed since it was read.
TxCommitUnchecked(i) ==
    /\ reqs[i].pc = "commit"
    /\ LET v == variant
           r == reqs[i]
           s == SessionOf(r)
           uid == CreditUser(v, s)
       IN  /\ Commit(uid, TxBody(v, i, r.sid, s, r.snap))
           /\ reqs' = [reqs EXCEPT ![i] = Succeeded(v, r)]
           /\ UNCHANGED failedPayments
    /\ UNCHANGED <<variant, checkouts>>

\* The commit: refused and the body re-run when the document changed since
\* it was read, applied as one unit otherwise.
TxCommit(i) ==
    /\ reqs[i].pc = "commit"
    /\ LET v == variant
           r == reqs[i]
           s == SessionOf(r)
           uid == CreditUser(v, s)
       IN  IF users[uid] # r.snap
           THEN /\ reqs' = [reqs EXCEPT ![i].pc = "get"]
                /\ UNCHANGED store
           ELSE /\ Commit(uid, TxBody(v, i, r.sid, s, r.snap))
                /\ reqs' = [reqs EXCEPT ![i] = Succeeded(v, r)]
                /\ UNCHANGED failedPayments
    /\ UNCHANGED <<variant, checkouts>>

\* the error of a store that is unavailable for a while
StoreUnavailable == "store unavailable"

\* The store fails a call of handleSuccessfulPayment (unavailable, deadline
\* exceeded): a probe, the deletion of a dummy, or the transaction, which
\* then rejects with nothing written.
StoreError(i) ==
    /\ reqs[i].pc \in {"ensure", "cleanup", "commit"}
    /\ reqs' = [reqs EXCEPT ![i] = Failed(variant, reqs[i], StoreUnavailable)]
    /\ UNCHANGED <<variant, store, checkouts>>

\* collection('failedPayments').add(...) in the inner catch.
StoreFailedPayment(i) ==
    /\ reqs[i].pc = "fail"
    /\ LET r == reqs[i]
           s == SessionOf(r)
       IN  failedPayments' = Append(failedPayments,
              [ sessionId |-> r.sid, error |-> r.err,
                metadata |-> [userId |-> s.userId, points |-> s.points] ])
    /\ reqs' = [reqs EXCEPT ![i].pc = "done", ![i].outcome = "failed"]
    /\ UNCHANGED <<variant, users, purchases, userPurchases,
                   pointsTransactions, checkouts>>

\* The add itself fails: the outer catch runs after the response was sent.
FailedPaymentError(i) ==
    /\ reqs[i].pc = "fail"
    /\ reqs' = [reqs EXCEPT ![i] =
                    Send([@ EXCEPT !.pc = "done", !.outcome = "failed"], 400)]
    /\ UNCHANGED <<variant, store, checkouts>>

---------------------------------------------------------------------------
(* Checkout *)

MIN_POINTS == 10
MAX_POINTS == 5000
UNIT_PRICE == 10

\* the points quantities a checkout request may carry (undefined included)
CheckoutPoints == {Undef, Num(5), Num(10), Num(5000), Num(5001)}

\* the request bodies posted to the checkout: <<points, userId, email given>>
CheckoutBodies ==
    {<<p, "u1", TRUE>> : p \in CheckoutPoints}
        \cup {<<Num(10), NoUser, TRUE>>, <<Num(10), "u1", FALSE>>}

\* the revision validates MIN_POINTS <= points <= MAX_POINTS
BoundsChecked(v) == v \in {"srv1", "srv3", "srv4"}

\* the validation that answers 400
CheckoutRejects(v, points, userId, email) ==
    \/ Falsy(points)
    \/ userId = NoUser
    \/ v = "api" /\ ~email
    \/ /\ BoundsChecked(v)
       /\ Less(points, Num(MIN_POINTS)) \/ Less(Num(MAX_POINTS), points)

\* Mutant of GatewayCall: the unit price of one encoding with the quantity
\* of the other.
GatewayCallMixed(v, points, userId) ==
    [ unit_amount |-> UNIT_PRICE, quantity |-> 1,
      metadata |-> [userId |-> userId, points |-> NumToString(points.n)] ]

\* the arguments of stripe.checkout.sessions.create
GatewayCall(v, points, userId) ==
    [ unit_amount |-> IF v \in {"srv1", "srv3"} THEN points.n * UNIT_PRICE
                      ELSE UNIT_PRICE,
      quantity |-> IF v \in {"srv1", "srv3"} THEN 1 ELSE points.n,
      metadata |-> [userId |-> userId, points |-> NumToString(points.n)] ]

NoCall == [ unit_amount |-> 0, quantity |-> 0,
            metadata |-> [userId |-> NoUser, points |-> UndefStr] ]

\* Mutant of Checkout: an accepted checkout also stores a pending purchase.
CheckoutStoringPurchase(points, userId, email, gatewayOk) ==
    /\ Served < MaxRequests
    /\ LET rejected == CheckoutRejects(variant, points, userId, email)
       IN  /\ checkouts' = Append(checkouts,
                  [ points |-> points, userId |-> userId, email |-> email,
                    called |-> ~rejected,
                    status |-> IF rejected THEN 400
                               ELSE IF gatewayOk THEN 200 ELSE 500,
                    call |-> IF rejected THEN NoCall
                             ELSE GatewayCall(variant, points, userId) ])
           /\ purchases' = IF rejected THEN purchases
                           ELSE Append(purchases,
                                  [DummyPurchase(0) EXCEPT !.status = "pending"])
    /\ UNCHANGED <<variant, users, userPurchases, pointsTransactions,
                   failedPayments, reqs>>

\* POST /api/create-points-checkout (api: the checkout handler of
\* src/api/webhook.js); gatewayOk is whether the gateway creates the session.
Checkout(points, userId, email, gatewayOk) ==
    /\ Served < MaxRequests
    /\ LET v == variant
           rejected == CheckoutRejects(v, points, userId, email)
       IN  checkouts' = Append(checkouts,
              [ points |-> points, userId |-> userId, email |-> email,
                called |-> ~rejected,
                status |-> IF rejected THEN 400
                           ELSE IF gatewayOk THEN 200 ELSE 500,
                call |-> IF rejected THEN NoCall
                         ELSE GatewayCall(v, points, userId) ])
    /\ UNCHANGED <<variant, store, reqs>>

---------------------------------------------------------------------------
(* The system *)

\* The accounts at start-up: u1 has an account, nobody else has.
InitUsers ==
    [u \in UserIds |->
        IF u = "u1"
        THEN [exists |-> TRUE, points |-> Num(InitialPoints), ver |-> 1]
        ELSE NoDoc]

Init ==
    /\ variant \in WebhookVariants
    /\ users = InitUsers
    /\ purchases = <<>>
    /\ userPurchases = <<>>
    /\ pointsTransactions = <<>>
    /\ failedPayments = <<>>
    /\ reqs = <<>>
    /\ checkouts = <<>>
    /\ backend = "none"
    /\ credits = [u \in {} |-> Undef]
    /\ fileExists = FALSE
    /\ creqs = <<>>

Next ==
    \/ \E e \in Deliveries : WebhookArrive(e[1], e[2], e[3])
        /\ UNCHANGED creditsVars
    \/ TestWebhookArrive
        /\ UNCHANGED creditsVars
    \/ \E i \in DOMAIN reqs : ProbeCollections(i)
        /\ UNCHANGED creditsVars
    \/ \E i \in DOMAIN reqs : AddDummies(i)
        /\ UNCHANGED creditsVars
    \/ \E i \in DOMAIN reqs : DeleteDummies(i)
        /\ UNCHANGED creditsVars
    \/ \E i \in DOMAIN reqs : TxGet(i)
        /\ UNCHANGED creditsVars
    \/ \E i \in DOMAIN reqs : TxCommit(i)
        /\ UNCHANGED creditsVars
    \/ \E i \in DOMAIN reqs : StoreError(i)
        /\ UNCHANGED creditsVars
    \/ \E i \in DOMAIN reqs : StoreFailedPayment(i)
        /\ UNCHANGED creditsVars
    \/ \E i \in DOMAIN reqs : FailedPaymentError(i)
        /\ UNCHANGED creditsVars
    \/ \E b \in CheckoutBodies, gatewayOk \in BOOLEAN : Checkout(b[1], b[2], b[3], gatewayOk)
        /\ UNCHANGED creditsVars

Spec == Init /\ [][Next]_vars

---------------------------------------------------------------------------
(* Vocabulary of the properties *)

\* a signature-verified checkout.session.completed delivery
IsSettlement(r) == r.route = "webhook" /\ r.sigOK /\ r.type = Completed

\* a webhook request whose signature does not verify
IsForged(r) == r.route = "webhook" /\ ~r.sigOK

\* metadata with a user id and points that parse to a positive integer
ValidMeta(s) ==
    /\ s.userId # NoUser
    /\ ParseInt(s.points).k = "num"
    /\ ParseInt(s.points).n > 0

\* the completed purchase documents of a session, in purchases
CompletedFor(sid) ==
    {k \in DOMAIN purchases :
        purchases[k].sessionId = sid /\ purchases[k].status = "completed"}

\* the stored balance of u as a number, a missing account counting as 0
BalanceBefore(u) == IF InitUsers[u].exists THEN InitUsers[u].points.n ELSE 0

\* the deliveries of session sid among the requests
DeliveriesOf(sid) ==
    {i \in DOMAIN reqs : IsSettlement(reqs[i]) /\ reqs[i].sid = sid}

---------------------------------------------------------------------------
(* C1 - C10 *)

\* C1: idempotent credit under redelivery.  In the revisions that keep a
\* purchase document per session (srv3, srv4): once a session with valid
\* metadata {userId, points = p} has been delivered N >= 1 times, every
\* delivery verified and processed, and nothing else was served, the balance
\* of the user is the balance before plus p and exactly one completed
\* purchase document exists for the session.
C1_IdempotentCredit ==
    \A sid \in SessionIds :
        LET s == Sessions[sid]
            ds == DeliveriesOf(sid)
        IN  ( /\ variant \in {"srv3", "srv4"}
              /\ ValidMeta(s)
              /\ ds # {}
              /\ ds = DOMAIN reqs
              /\ checkouts = <<>>
              /\ \A i \in ds : reqs[i].pc = "done" /\ reqs[i].outcome = "credited" )
            => /\ users[s.userId].points
                    = Num(BalanceBefore(s.userId) + ParseInt(s.points).n)
               /\ Cardinality(CompletedFor(sid)) = 1

\* C2: concurrent redelivery.  When a delivery of a session arrives while
\* another delivery of the same session is still being processed (srv4), and
\* both run to completion without a store failure, exactly one of them has
\* credited the balance and written the purchase document.
C2_ConcurrentRedelivery ==
    \A i, j \in DOMAIN reqs :
        ( /\ variant = "srv4"
          /\ IsSettlement(reqs[i]) /\ IsSettlement(reqs[j])
          /\ reqs[i].sid = reqs[j].sid
          /\ ValidMeta(Sessions[reqs[i].sid])
          /\ i \in reqs[j].overlap
          /\ reqs[i].pc = "done" /\ reqs[j].pc = "done"
          /\ reqs[i].err = "" /\ reqs[j].err = "" )
        => /\ (reqs[i].outcome = "credited") # (reqs[j].outcome = "credited")
           /\ Cardinality(CompletedFor(reqs[i].sid)) = 1

\* C3: signature enforcement.  A webhook request whose signature does not
\* verify is answered 400 at once and never reaches handleSuccessfulPayment,
\* and no step that creates or advances such a request writes to users,
\* purchases, the ledgers or failedPayments, whatever session it copies.
C3_SignatureEnforcement ==
    /\ [](\A i \in DOMAIN reqs :
            IsForged(reqs[i])
                => /\ reqs[i].pc = "done"
                   /\ reqs[i].status = 400
                   /\ reqs[i].outcome = "rejected")
    /\ [][ \A i \in DOMAIN reqs' :
              ( /\ IsForged(reqs'[i])
                /\ (i \notin DOMAIN reqs \/ reqs[i] # reqs'[i]) )
              => UNCHANGED store ]_vars

\* C3 witness: a forged delivery that copies the valid session cs_a of the
\* existing account was answered 400 and the store is as it started.
C3_Witness ==
    /\ \E i \in DOMAIN reqs :
          /\ IsForged(reqs[i]) /\ reqs[i].sid = "cs_a"
          /\ reqs[i].status = 400
    /\ Len(reqs) = MaxRequests
    /\ users = InitUsers /\ purchases = <<>> /\ failedPayments = <<>>

\* C4: the balance is written only by the verified-notification path: every
\* account that differs from its state at start-up was credited by a
\* signature-verified settlement event; no other route changes a balance.
C4_OnlyVerifiedCredit ==
    \A u \in UserIds :
        users[u] # InitUsers[u]
            => \E i \in DOMAIN reqs :
                  /\ IsSettlement(reqs[i])
                  /\ CreditUser(variant, SessionOf(reqs[i])) = u
                  /\ reqs[i].outcome = "credited"

\* the completed purchase documents among docs
NumCompleted(docs) ==
    Cardinality({k \in DOMAIN docs : docs[k].status = "completed"})

\* the pointsTransactions documents of type 'purchase' among docs
NumPurchaseType(docs) ==
    Cardinality({k \in DOMAIN docs : docs[k].type = "purchase"})

\* One step seen from the store: nothing of a credit, or all of it.
CreditStep ==
    LET changed == {u \in UserIds : users'[u] # users[u]}
        dP == NumCompleted(purchases') - NumCompleted(purchases)
        dU == NumCompleted(userPurchases') - NumCompleted(userPurchases)
        dT == NumPurchaseType(pointsTransactions')
                - NumPurchaseType(pointsTransactions)
        rec == IF variant = "p4" THEN userPurchases'[Len(userPurchases')]
               ELSE purchases'[Len(purchases')]
        dL == IF variant = "p4" THEN dU ELSE dP
    IN  /\ dL \in {0, 1}
        /\ (changed # {}) <=> (dL = 1)
        /\ variant = "srv3" => dT = dP
        /\ variant = "srv4" => dU = dP
        /\ dL = 1 =>
              /\ rec.status = "completed"
              /\ changed = {rec.userId}
              /\ users'[rec.userId].exists
              /\ users'[rec.userId].points =
                    IF users[rec.userId].exists
                    THEN Plus(OrZero(users[rec.userId].points), rec.points)
                    ELSE rec.points

\* C5: atomicity of the credit, in the revisions that write purchase
\* documents (srv1, srv3, srv4 in purchases, p4 under users/{uid}/purchases;
\* api writes none).  Every step either leaves all accounts and all completed
\* purchase documents as they are, or changes exactly one account and adds
\* exactly one completed purchase document for that account, whose points are
\* what the balance grew by, together with its pointsTransactions document
\* (srv3) or its copy under users/{uid}/purchases (srv4).  So a transaction
\* that throws, or that is overtaken between its read and its write, shows no
\* part of its credit.
C5_AtomicCredit == [][(variant # "api") => CreditStep]_vars

\* C5 witness: one transaction threw 'User not found' and wrote nothing,
\* another one committed its credit with its purchase documents.
C5_Witness ==
    /\ variant = "srv4"
    /\ \E i, j \in DOMAIN reqs :
          /\ reqs[i].pc = "done" /\ reqs[i].err = "User not found"
          /\ reqs[j].pc = "done" /\ reqs[j].outcome = "credited"
    /\ Len(purchases) = 1 /\ Len(userPurchases) = 1
    /\ ~users["u2"].exists

\* C6: bounds enforcement at checkout: every checkout request whose points
\* is below 10 or above 5000 is answered 400 and makes no gateway call, in
\* every checkout handler.
C6_BoundsEnforced ==
    \A k \in DOMAIN checkouts :
        LET c == checkouts[k]
        IN  ( \/ Less(c.points, Num(MIN_POINTS))
              \/ Less(Num(MAX_POINTS), c.points) )
            => c.status = 400 /\ ~c.called

\* C7: metadata validation: a verified settlement event whose metadata lacks
\* userId or points, or whose points is not a positive integer, ends as
\* failed, writes no completed purchase document, and leaves the balance of
\* the user unchanged.
C7_MetadataValidation ==
    /\ \A i \in DOMAIN reqs :
          ( /\ IsSettlement(reqs[i])
            /\ ~ValidMeta(Sessions[reqs[i].sid])
            /\ reqs[i].pc = "done" )
          => /\ reqs[i].outcome = "failed"
             /\ CompletedFor(reqs[i].sid) = {}
             /\ \A k \in DOMAIN userPurchases :
                   userPurchases[k].sessionId # reqs[i].sid
    /\ ( \A i \in DOMAIN reqs :
            IsSettlement(reqs[i]) /\ ~ValidMeta(Sessions[reqs[i].sid]) )
       => \A u \in UserIds : users[u].points = InitUsers[u].points

\* C8: balance invariant: every stored balance is a non-negative integer.
C8_BalanceNonNegative ==
    \A u \in UserIds :
        users[u].exists => users[u].points.k = "num" /\ users[u].points.n >= 0

\* C9: failures are captured: in the handlers that acknowledge before they
\* process, every verified settlement event whose credit failed has a
\* failedPayments document with its session id, error and metadata.
C9_FailuresCaptured ==
    \A i \in DOMAIN reqs :
        ( /\ AcksFirst(variant)
          /\ IsSettlement(reqs[i])
          /\ reqs[i].pc = "done"
          /\ reqs[i].outcome = "failed" )
        => \E k \in DOMAIN failedPayments :
              /\ failedPayments[k].sessionId = reqs[i].sid
              /\ failedPayments[k].error = reqs[i].err
              /\ failedPayments[k].metadata.userId = Sessions[reqs[i].sid].userId
              /\ failedPayments[k].metadata.points = Sessions[reqs[i].sid].points

\* C10: acknowledgment: a webhook request is answered {received: true}
\* (200) exactly when its signature verifies and 400 exactly when it does
\* not, whatever the credit processing does afterwards.
C10_Acknowledgment ==
    \A i \in DOMAIN reqs :
        (reqs[i].route = "webhook" /\ reqs[i].pc = "done")
        => /\ (reqs[i].status = 200) <=> reqs[i].sigOK
           /\ (reqs[i].status = 400) <=> ~reqs[i].sigOK

---------------------------------------------------------------------------
(* The credits service *)

\* requests to the credits service served in one run
MaxCreditRequests == 3

\* the balance of the one user that has an entry when the run starts
InitialCredits == 1

\* "const userCredits = credits[userId] || 5; // Default 5 credits"
DEFAULT_CREDITS == 5

Backends == {"file1", "file4", "kv", "fs2"}

\* the store is one JSON file, read and written as a whole
IsFile(b) == b \in {"file1", "file4"}

CreditUsers == {"u1", "u2"}

\* JSON null: what JSON.stringify writes for NaN
Null == [k |-> "null", n |-> 0]

\* JSON.stringify / res.json of a number
Json(v) == IF v = NaN THEN Null ELSE v

\* A value as the store keeps it: the JSON file and the key-value store
\* serialise with JSON.stringify, Firestore keeps NaN as a number.
Stored(b, v) == IF b = "fs2" THEN v ELSE Json(v)

\* a - b on numbers
Minus(a, b) == IF a.k = "num" /\ b.k = "num" THEN Num(a.n - b.n) ELSE NaN

\* The sessions stripe.checkout.sessions.retrieve can return: two paid
\* sessions of create-checkout-session (metadata.credits of a package), one
\* not paid, and a paid session of the points checkout, which has no
\* metadata.credits.
CreditSessions ==
    [ ps_10     |-> [userId |-> "u1", credits |-> <<"1", "0">>,
                     payment_status |-> "paid"],
      ps_25     |-> [userId |-> "u2", credits |-> <<"2", "5">>,
                     payment_status |-> "paid"],
      ps_unpaid |-> [userId |-> "u2", credits |-> <<"1", "0">>,
                     payment_status |-> "unpaid"],
      ps_points |-> [userId |-> "u1", credits |-> UndefStr,
                     payment_status |-> "paid"] ]

CreditSessionIds == DOMAIN CreditSessions

\* An object without entries: {} of readCredits, a missing key or document.
NoCredits == [u \in CreditUsers |-> Undef]

InitCredits == [NoCredits EXCEPT !["u1"] = Num(InitialCredits)]

\* The balance check-credits answers from the stored value v.
CheckedBalance(b, v) ==
    IF b = "fs2" THEN (IF v = Undef THEN Num(DEFAULT_CREDITS) ELSE v)
    ELSE (IF Falsy(v) THEN Num(DEFAULT_CREDITS) ELSE v)

\* The balance payment-success and generate-image start from.
CurrentCredits(b, v) ==
    IF b = "fs2" THEN (IF v = Undef THEN Num(DEFAULT_CREDITS) ELSE v)
    ELSE OrZero(v)

\* the handler returns 400 for a request without userId
RequiresUserId(b, route) ==
    \/ route = "check" /\ b \in {"file1", "fs2"}
    \/ route = "generate" /\ b = "file4"

NewCreditReq(route, uid, sid) ==
    [ route |-> route, userId |-> uid, sid |-> sid, pc |-> "read",
      snap |-> NoCredits, cur |-> Undef, new |-> Undef,
      status |-> 0, credits |-> Undef ]

\* the request answered with status s and, where it applies, a balance
Respond(r, s, v) ==
    [r EXCEPT !.pc = "done", !.status = s, !.credits = v,
              !.snap = NoCredits]

\* credits[userId], kv.get(`credits:${userId}`), the credits document
Lookup(m, uid) == IF uid \in CreditUsers THEN m[uid] ELSE Undef

\* The handler from the moment readCredits / kv.get / getUserCredits
\* returned m, up to its next await.
AfterRead(b, r, m) ==
    LET v == Lookup(m, r.userId)
        cur == CurrentCredits(b, v)
    IN  CASE r.route = "check" ->
                Respond([r EXCEPT !.cur = v], 200, Json(CheckedBalance(b, v)))
          [] r.route = "pay" ->
                [r EXCEPT !.pc = "write", !.snap = IF IsFile(b) THEN m ELSE NoCredits,
                          !.cur = cur,
                          !.new = Plus(cur, ParseInt(CreditSessions[r.sid].credits))]
          [] OTHER ->
                IF Less(cur, Num(1))
                THEN Respond(r, IF b = "fs2" THEN 403 ELSE 402, Undef)
                ELSE [r EXCEPT !.pc = "generate",
                               !.snap = IF IsFile(b) THEN m ELSE NoCredits,
                               !.cur = cur, !.new = Minus(cur, Num(1))]

\* Mutant of WrittenCredits: the write changes only the entry of the user.
WrittenCreditsPerKey(b, r) == [credits EXCEPT ![r.userId] = Stored(b, r.new)]

\* The store after the write of request r: writeCredits(credits) replaces
\* the file by the object the request read, with its one entry changed;
\* kv.set and doc(userId).set replace the entry of the user.
WrittenCredits(b, r) ==
    IF IsFile(b) THEN [r.snap EXCEPT ![r.userId] = Stored(b, r.new)]
    ELSE [credits EXCEPT ![r.userId] = Stored(b, r.new)]

\* POST /api/check-credits, up to its first await.
CheckArrive(uid) ==
    /\ Len(creqs) < MaxCreditRequests
    /\ LET r == NewCreditReq("check", uid, "none")
       IN  creqs' = Append(creqs,
              IF uid = NoUser /\ RequiresUserId(backend, "check")
              THEN Respond(r, 400, Undef) ELSE r)
    /\ UNCHANGED <<backend, credits, fileExists>>

\* GET /api/payment-success, up to readCredits: the session is retrieved
\* and must be paid.
PaymentArrive(sid) ==
    /\ Len(creqs) < MaxCreditRequests
    /\ LET s == CreditSessions[sid]
           r == NewCreditReq("pay", s.userId, sid)
       IN  creqs' = Append(creqs,
              IF s.payment_status # "paid" THEN Respond(r, 400, Undef) ELSE r)
    /\ UNCHANGED <<backend, credits, fileExists>>

\* POST /api/generate-image, up to its first await.  file1 has no such
\* route; in fs2 the handler reads prompt before its declaration and always
\* ends in the catch block.
GenerateArrive(uid) ==
    /\ Len(creqs) < MaxCreditRequests
    /\ backend # "file1"
    /\ LET r == NewCreditReq("generate", uid, "none")
       IN  creqs' = Append(creqs,
              IF backend = "fs2" THEN Respond(r, 500, Undef)
              ELSE IF uid = NoUser /\ RequiresUserId(backend, "generate")
              THEN Respond(r, 400, Undef) ELSE r)
    /\ UNCHANGED <<backend, credits, fileExists>>

\* Mutant of ReadCredits: a read that finds no entry stores the default.
ReadCreditsStoringDefault(i) ==
    /\ creqs[i].pc = "read"
    /\ creqs' = [creqs EXCEPT ![i] = AfterRead(backend, @, credits)]
    /\ credits' = IF creqs[i].userId \in CreditUsers
                     /\ credits[creqs[i].userId] = Undef
                  THEN [credits EXCEPT ![creqs[i].userId] = Num(DEFAULT_CREDITS)]
                  ELSE credits
    /\ UNCHANGED <<backend, fileExists>>

\* readCredits() / kv.get / getUserCredits returns.  In file1 a file that
\* cannot be read is first created.
ReadCredits(i) ==
    /\ creqs[i].pc = "read"
    /\ creqs' = [creqs EXCEPT ![i] =
          IF backend = "file1" /\ ~fileExists THEN [@ EXCEPT !.pc = "create"]
          ELSE AfterRead(backend, @, credits)]
    /\ UNCHANGED <<backend, credits, fileExists>>

\* file1, readCredits: fs.writeFile(CREDITS_FILE, '{}') after the read failed.
CreateFile(i) ==
    /\ creqs[i].pc = "create"
    /\ credits' = NoCredits
    /\ fileExists' = TRUE
    /\ creqs' = [creqs EXCEPT ![i] = AfterRead(backend, @, NoCredits)]
    /\ UNCHANGED backend

\* writeCredits / kv.set / updateUserCredits succeeds (for generate-image:
\* after the image API answered) and the handler responds.
WriteCredits(i) ==
    /\ creqs[i].pc \in {"write", "generate"}
    /\ credits' = WrittenCredits(backend, creqs[i])
    /\ fileExists' = (fileExists \/ IsFile(backend))
    /\ creqs' = [creqs EXCEPT ![i] = Respond(@, 200, Json(@.new))]
    /\ UNCHANGED backend

\* Mutant of CreditsError: the credit is deducted although the call failed.
CreditsErrorDeducting(i) ==
    /\ creqs[i].pc \in {"write", "generate"}
    /\ credits' = IF creqs[i].pc = "generate"
                  THEN WrittenCredits(backend, creqs[i]) ELSE credits
    /\ creqs' = [creqs EXCEPT ![i] = Respond(@, 500, Undef)]
    /\ UNCHANGED <<backend, fileExists>>

\* The write, or the call of the image API, fails: the catch block answers 500.
CreditsError(i) ==
    /\ creqs[i].pc \in {"write", "generate"}
    /\ creqs' = [creqs EXCEPT ![i] = Respond(@, 500, Undef)]
    /\ UNCHANGED <<backend, credits, fileExists>>

CreditsInit ==
    /\ backend \in Backends
    /\ fileExists \in (IF IsFile(backend) THEN BOOLEAN ELSE {FALSE})
    /\ credits = IF IsFile(backend) /\ ~fileExists THEN NoCredits
                 ELSE InitCredits
    /\ creqs = <<>>
    /\ variant = "none"
    /\ users = [u \in {} |-> NoDoc]
    /\ purchases = <<>>
    /\ userPurchases = <<>>
    /\ pointsTransactions = <<>>
    /\ failedPayments = <<>>
    /\ reqs = <<>>
    /\ checkouts = <<>>

CreditsNext ==
    \/ \E uid \in CreditUsers \cup {NoUser} : CheckArrive(uid)
        /\ UNCHANGED pointsVars
    \/ \E sid \in CreditSessionIds : PaymentArrive(sid)
        /\ UNCHANGED pointsVars
    \/ \E uid \in CreditUsers \cup {NoUser} : GenerateArrive(uid)
        /\ UNCHANGED pointsVars
    \/ \E i \in DOMAIN creqs : ReadCredits(i)
        /\ UNCHANGED pointsVars
    \/ \E i \in DOMAIN creqs : CreateFile(i)
        /\ UNCHANGED pointsVars
    \/ \E i \in DOMAIN creqs : WriteCredits(i)
        /\ UNCHANGED pointsVars
    \/ \E i \in DOMAIN creqs : CreditsError(i)
        /\ UNCHANGED pointsVars

CreditsSpec == CreditsInit /\ [][CreditsNext]_vars

---------------------------------------------------------------------------
(* C11 - C20 *)

\* a signature-verified webhook request whose event is of another type
IsOtherEvent(r) == r.route = "webhook" /\ r.sigOK /\ r.type # Completed

\* C11: event filtering.  In every webhook handler, a signature-verified
\* event whose type is not checkout.session.completed is acknowledged with
\* {received: true} (200) in the step that receives it, is never handed to
\* handleSuccessfulPayment, and no step that receives or advances such a
\* request changes users, purchases, pointsTransactions or failedPayments.
C11_EventFiltering ==
    /\ [](\A i \in DOMAIN reqs :
            IsOtherEvent(reqs[i])
                => /\ reqs[i].pc = "done"
                   /\ reqs[i].status = 200
                   /\ reqs[i].outcome = "ignored")
    /\ [][ \A i \in DOMAIN reqs' :
              ( /\ IsOtherEvent(reqs'[i])
                /\ (i \notin DOMAIN reqs \/ reqs[i] # reqs'[i]) )
              => UNCHANGED store ]_vars

\* C11 witness: a verified payment_intent.succeeded event was acknowledged
\* after a credit had been made, and the store is as the credit left it.
C11_Witness ==
    /\ Len(reqs) = 2
    /\ reqs[1].outcome = "credited"
    /\ IsOtherEvent(reqs[2]) /\ reqs[2].status = 200
    /\ users # InitUsers
    /\ failedPayments = <<>>

\* C12: retry policy.  In the handlers that record failed payments (srv3,
\* srv4): a verified settlement event whose credit failed with a transient
\* store error and for which a failedPayments document with that error was
\* recorded had its credit attempted more than once; a terminal failure is
\* never recorded after a single failed attempt.
C12_RetryPolicy ==
    \A i \in DOMAIN reqs :
        ( /\ IsSettlement(reqs[i])
          /\ reqs[i].pc = "done"
          /\ reqs[i].outcome = "failed"
          /\ reqs[i].err = StoreUnavailable
          /\ \E k \in DOMAIN failedPayments :
                /\ failedPayments[k].sessionId = reqs[i].sid
                /\ failedPayments[k].error = StoreUnavailable )
        => reqs[i].attempts > 1

\* the latest delivery of session sid (0 when there is none)
LastDelivery(sid) ==
    IF DeliveriesOf(sid) = {} THEN 0
    ELSE CHOOSE i \in DeliveriesOf(sid) : \A j \in DeliveriesOf(sid) : j <= i

\* C13: eventual credit.  The gateway redelivers an event until a delivery
\* is answered 2xx.  So for a session with valid metadata one of whose
\* credit attempts failed on an unavailable store: once every delivery has
\* been processed and the latest one was answered 200 (no redelivery will
\* follow), exactly one delivery of the session has credited the balance.
\* A failure must therefore have been reported to the caller.
C13_EventualCredit ==
    \A sid \in SessionIds :
        LET ds == DeliveriesOf(sid)
        IN  ( /\ ValidMeta(Sessions[sid])
              /\ ds # {}
              /\ \A i \in ds : reqs[i].pc = "done"
              /\ \E i \in ds : reqs[i].err = StoreUnavailable
              /\ reqs[LastDelivery(sid)].status = 200 )
            => Cardinality({i \in ds : reqs[i].outcome = "credited"}) = 1

\* a balance query that was answered
IsAnsweredCheck(r) == r.route = "check" /\ r.pc = "done" /\ r.status = 200

\* C14: the balance query returns the stored balance whenever an entry
\* exists.  For every answered check-credits request: when the value read
\* for the user is a number b >= 0 (b = 0 included) the answer is b, and the
\* answer is the default only when no entry was read (or the entry holds
\* the default itself).
C14_QueryReturnsStored ==
    \A i \in DOMAIN creqs :
        IsAnsweredCheck(creqs[i])
        => LET v == creqs[i].cur
           IN  /\ (v.k = "num" /\ v.n >= 0) => creqs[i].credits = v
               /\ (creqs[i].credits = Num(DEFAULT_CREDITS))
                      => (v = Undef \/ v = Num(DEFAULT_CREDITS))

\* the balance queries that take a step: those that arrive or advance
CheckSteps ==
    {i \in DOMAIN creqs' :
        /\ creqs'[i].route = "check"
        /\ (i \notin DOMAIN creqs \/ creqs[i] # creqs'[i])}

\* C15: the balance query has no side effect.  Every step of a
\* check-credits request for a user id without a stored entry leaves the
\* store without an entry for that user, and a query that read no entry
\* answers the default, each time.  The only write a query ever makes is
\* the empty file readCredits of file1 creates when the file cannot be
\* read; every other step of a query leaves the store as it is.
C15_QueryNoSideEffect ==
    [][ \A i \in CheckSteps :
          LET r == creqs'[i]
              creating == i \in DOMAIN creqs /\ creqs[i].pc = "create"
          IN  /\ Lookup(credits, r.userId) = Undef
                    => Lookup(credits', r.userId) = Undef
              /\ (IsAnsweredCheck(r) /\ r.cur = Undef)
                    => r.credits = Num(DEFAULT_CREDITS)
              /\ IF creating
                 THEN backend = "file1" /\ credits' = NoCredits
                 ELSE UNCHANGED <<credits, fileExists>> ]_vars

\* C15 witness: two queries for u2, who has no entry, were both answered
\* with the default after a payment was credited to u1, and u2 still has
\* no entry.
C15_Witness ==
    /\ Len(creqs) = 3
    /\ creqs[1].route = "pay" /\ creqs[1].status = 200
    /\ \A i \in {2, 3} :
          /\ IsAnsweredCheck(creqs[i]) /\ creqs[i].userId = "u2"
          /\ creqs[i].credits = Num(DEFAULT_CREDITS)
    /\ credits["u2"] = Undef
    /\ credits["u1"] # Undef

\* a payment-success request that was answered with success
IsCreditedPayment(r) == r.route = "pay" /\ r.pc = "done" /\ r.status = 200

\* C16: default plus purchase.  For a user without a stored entry at the
\* start: when a first query read no entry and answered d, then one paid
\* session of p credits was credited to the user (the only write of the
\* run), and a later query read the entry that purchase wrote, that query
\* answers d + p.
C16_DefaultPlusPurchase ==
    \A sid \in CreditSessionIds :
        LET u == CreditSessions[sid].userId
            p == ParseInt(CreditSessions[sid].credits)
        IN  ( /\ InitCredits[u] = Undef
              /\ p.k = "num"
              /\ Len(creqs) = 3
              /\ IsAnsweredCheck(creqs[1]) /\ creqs[1].userId = u
              /\ creqs[1].cur = Undef
              /\ IsCreditedPayment(creqs[2]) /\ creqs[2].sid = sid
              /\ IsAnsweredCheck(creqs[3]) /\ creqs[3].userId = u
              /\ creqs[3].cur # Undef )
            => creqs[3].credits = Plus(creqs[1].credits, p)

\* C17: implicit account creation.  In every revision of
\* handleSuccessfulPayment: a verified settlement event with valid metadata
\* for a user id without an account document, once processed without a
\* store failure, has credited the user: the account exists, the event did
\* not fail with 'user not found', and the first such credit leaves the
\* balance at 0 + points.
C17_ImplicitAccountCreation ==
    \A i \in DOMAIN reqs :
        LET r == reqs[i]
            s == Sessions[r.sid]
            u == CreditUser(variant, s)
        IN  ( /\ IsSettlement(r)
              /\ r.pc = "done"
              /\ r.outcome # "ignored"
              /\ r.err # StoreUnavailable
              /\ ValidMeta(s)
              /\ u \in UserIds
              /\ ~InitUsers[u].exists )
            => /\ r.outcome = "credited"
               /\ users[u].exists
               /\ (Cardinality(DeliveriesOf(r.sid)) = 1 /\ Len(reqs) = 1)
                     => users[u].points = ParseInt(s.points)

\* the total the gateway charges for a call: unit_amount times quantity
Total(call) == call.unit_amount * call.quantity

\* C18: checkout price.  For every checkout request that reached the
\* gateway with p points, the total requested (unit_amount * quantity) is
\* p * 10 minor units, and the two encodings of the code (unit_amount
\* p * 10 with quantity 1; unit_amount 10 with quantity p) give that same
\* total for p.
C18_CheckoutPrice ==
    \A k \in DOMAIN checkouts :
        LET c == checkouts[k]
        IN  c.called
            => /\ Total(c.call) = c.points.n * UNIT_PRICE
               /\ Total(GatewayCall("srv1", c.points, c.userId))
                     = Total(GatewayCall("srv4", c.points, c.userId))
               /\ c.call \in {GatewayCall("srv1", c.points, c.userId),
                              GatewayCall("srv4", c.points, c.userId)}

\* C18 witness: 5000 points were priced as one item of 50000 minor units
\* and, in another request, 10 points as one item of 100.
C18_Witness ==
    /\ Len(checkouts) = 2
    /\ checkouts[1].called /\ checkouts[1].points = Num(MAX_POINTS)
    /\ checkouts[1].call.unit_amount = MAX_POINTS * UNIT_PRICE
    /\ checkouts[1].call.quantity = 1
    /\ checkouts[2].called /\ checkouts[2].points = Num(MIN_POINTS)
    /\ Total(checkouts[2].call) = MIN_POINTS * UNIT_PRICE

\* C19: checkout writes no local state.  Every step that serves a checkout
\* request, whether it ends in success (200), in a validation rejection
\* (400) or in a gateway failure (500), leaves users, purchases, the
\* ledgers and failedPayments unchanged.
C19_CheckoutWritesNothing ==
    [][ Len(checkouts') > Len(checkouts)
          => /\ checkouts'[Len(checkouts')].status \in {200, 400, 500}
             /\ UNCHANGED store ]_vars

\* C19 witness: in the newest revision one checkout failed at the gateway
\* and one succeeded, and the store is as it was at start-up.
C19_Witness ==
    /\ variant = "srv4"
    /\ Len(checkouts) = 2
    /\ checkouts[1].status = 500 /\ checkouts[1].called
    /\ checkouts[2].status = 200
    /\ users = InitUsers /\ purchases = <<>> /\ failedPayments = <<>>

\* C20: the JSON-file store gives no atomic update under concurrent
\* writers.  Every successful write of a request replaces the whole file by
\* what that request read earlier, with its own entry changed: whatever
\* another request wrote since that read is overwritten.  The witness is
\* the interleaving of two payment-success requests for two distinct paid
\* sessions after which the store holds only one of the two credits.
C20_WholeFileWrite ==
    [][ \A i \in DOMAIN creqs :
          ( /\ IsFile(backend)
            /\ creqs[i].pc \in {"write", "generate"}
            /\ creqs'[i].pc = "done" /\ creqs'[i].status = 200 )
          => \A w \in CreditUsers :
                credits'[w] = IF w = creqs[i].userId
                              THEN Stored(backend, creqs[i].new)
                              ELSE creqs[i].snap[w] ]_vars

\* C20 witness: payment-success for ps_10 (u1) and for ps_25 (u2) were both
\* answered with success, the store holds the 25 credits of u2, and the
\* entry of u1 is not the balance the first request answered: its credit
\* is lost.
C20_Witness ==
    /\ IsFile(backend)
    /\ Len(creqs) = 2
    /\ IsCreditedPayment(creqs[1]) /\ creqs[1].sid = "ps_10"
    /\ IsCreditedPayment(creqs[2]) /\ creqs[2].sid = "ps_25"
    /\ credits["u2"] = creqs[2].credits
    /\ credits["u1"] # creqs[1].credits
    /\ credits["u1"] = InitCredits["u1"]

---------------------------------------------------------------------------
(* C21 - C29 *)

\* C21: independent transaction ids.  In the revisions of src/server.js,
\* whose credit runs in a Firestore transaction: when the run consists of
\* two verified settlement events with distinct session ids and valid
\* metadata for the same user (points p1 and p2), and both were processed to
\* the end, then whatever the interleaving of their steps the balance is
\* the initial balance + p1 + p2 and each session has its one completed
\* purchase document.
C21_IndependentSessions ==
    \A i, j \in DOMAIN reqs :
        LET si == Sessions[reqs[i].sid]
            sj == Sessions[reqs[j].sid]
        IN  ( /\ variant \in {"srv1", "srv3", "srv4"}
              /\ Len(reqs) = 2
              /\ IsSettlement(reqs[i]) /\ IsSettlement(reqs[j])
              /\ reqs[i].sid # reqs[j].sid
              /\ ValidMeta(si) /\ ValidMeta(sj)
              /\ si.userId = sj.userId
              /\ reqs[i].outcome = "credited" /\ reqs[j].outcome = "credited" )
            => /\ users[si.userId].points =
                    Num(BalanceBefore(si.userId) + ParseInt(si.points).n
                            + ParseInt(sj.points).n)
               /\ Cardinality(CompletedFor(reqs[i].sid)) = 1
               /\ Cardinality(CompletedFor(reqs[j].sid)) = 1

\* C21 witness: the event for cs_a arrived first and the event for cs_b
\* second, the transaction of cs_b committed first (so the one of cs_a was
\* overtaken and re-run), and the balance holds both credits.
C21_Witness ==
    /\ variant = "srv4"
    /\ Len(reqs) = 2
    /\ reqs[1].sid = "cs_a" /\ reqs[1].outcome = "credited"
    /\ reqs[2].sid = "cs_b" /\ reqs[2].outcome = "credited"
    /\ Len(purchases) = 2 /\ purchases[1].sessionId = "cs_b"
    /\ users["u1"].points = Num(InitialPoints + 30)

\* the sum of the points of the completed purchase documents of user u among
\* the first k documents of purchases, added as the handler adds numbers
RECURSIVE LedgerSum(_, _)
LedgerSum(u, k) ==
    IF k = 0 THEN Num(0)
    ELSE IF purchases[k].status = "completed" /\ purchases[k].userId = u
         THEN Plus(LedgerSum(u, k - 1), purchases[k].points)
         ELSE LedgerSum(u, k - 1)

\* the number of documents of a collection that are not {dummy: true}
NumEntries(coll) ==
    Cardinality({k \in DOMAIN coll :
        IF "status" \in DOMAIN coll[k] THEN coll[k].status = "completed"
        ELSE coll[k].type = "purchase"})

\* C22: the ledger matches the balance.  In the revisions with a secondary
\* ledger (srv3: pointsTransactions, srv4: the purchases subcollection of the
\* user), in every state the balance of every account equals the balance
\* the account started with plus the sum of the points of its completed
\* purchase documents, and the secondary ledger holds as many entries as
\* the purchases collection.
C22_LedgerMatchesBalance ==
    variant \in {"srv3", "srv4"} =>
        /\ \A u \in UserIds :
              users[u].exists =>
                users[u].points =
                    Plus(Num(BalanceBefore(u)), LedgerSum(u, Len(purchases)))
        /\ NumEntries(purchases) =
              (IF variant = "srv3" THEN NumEntries(pointsTransactions)
               ELSE NumEntries(userPurchases))

\* every integer within the bounds of the checkout, written with toString
\* and read back by handleSuccessfulPayment, is the integer itself
RoundTripInRange ==
    \A p \in MIN_POINTS..MAX_POINTS :
        PointsToAdd("srv4", [points |-> NumToString(p)]) = Num(p)

\* C23: points round trip.  In the revisions that bill quantity = points
\* (srv4, api, p4), for every checkout request with an integer number of
\* points that passed the validation, the number handleSuccessfulPayment
\* reads from the metadata string the checkout wrote is the number requested
\* at checkout, and that number is the quantity sent to the gateway; the
\* same holds of every integer within the bounds.
C23_PointsRoundTrip ==
    /\ RoundTripInRange
    /\ variant \in {"srv4", "api", "p4"} =>
          \A k \in DOMAIN checkouts :
              checkouts[k].called =>
                /\ PointsToAdd(variant,
                        [points |-> checkouts[k].call.metadata.points])
                        = checkouts[k].points
                /\ checkouts[k].call.quantity = checkouts[k].points.n

\* C23 witness: srv4 created a session for 5000 points, whose metadata reads
\* back as 5000.
C23_Witness ==
    /\ variant = "srv4"
    /\ \E k \in DOMAIN checkouts :
          /\ checkouts[k].status = 200
          /\ checkouts[k].points = Num(MAX_POINTS)
          /\ ParseInt(checkouts[k].call.metadata.points) = Num(MAX_POINTS)

\* a session as the checkout handler of revision v creates it: the metadata
\* of one of its gateway calls and no client_reference_id
CreatedByCheckout(v, s) ==
    /\ s.client_reference_id = NoUser
    /\ \E b \in CheckoutBodies :
          /\ ~CheckoutRejects(v, b[1], b[2], b[3])
          /\ GatewayCall(v, b[1], b[2]).metadata =
                [userId |-> s.userId, points |-> s.points]

\* C24: user id round trip in src/api/webhook.js.  Every verified
\* settlement event for a paid session created by the checkout handler of
\* that file for an existing account, once processed, was credited, and the
\* balance of the user id supplied at checkout grew.
C24_UserIdRoundTrip ==
    variant = "api" =>
        \A i \in DOMAIN reqs :
            LET s == Sessions[reqs[i].sid]
            IN  ( /\ IsSettlement(reqs[i])
                  /\ reqs[i].pc = "done"
                  /\ CreatedByCheckout("api", s)
                  /\ s.payment_status = "paid"
                  /\ InitUsers[s.userId].exists )
                => /\ reqs[i].outcome = "credited"
                   /\ users[s.userId].points.n > BalanceBefore(s.userId)

C26_CreditedOncePerSession ==
    \A sid \in CreditSessionIds :
        LET s == CreditSessions[sid]
            c == ParseInt(s.credits)
            start == CurrentCredits(backend, InitCredits[s.userId])
        IN  ( /\ backend \in Backends
              /\ s.payment_status = "paid" /\ c.k = "num"
              /\ ~IsFile(backend) \/ InitCredits[s.userId] = Undef
              /\ creqs # <<>>
              /\ \A i \in DOMAIN creqs :
                    /\ creqs[i].route = "pay" /\ creqs[i].sid = sid
                    /\ creqs[i].pc = "done" /\ creqs[i].status = 200 )
            => credits[s.userId] = Plus(start, c)

\* the generate-image requests of user u that returned an image
Generated(u) ==
    {i \in DOMAIN creqs :
        /\ creqs[i].route = "generate" /\ creqs[i].userId = u
        /\ creqs[i].pc = "done" /\ creqs[i].status = 200}

\* C27: no double spend in image generation.  For a user whose balance at
\* the start is k: when every request of the run is a POST
\* /api/generate-image of that user, then in every interleaving the number
\* m of requests that returned an image is at most k and the stored balance
\* is k - m.
C27_NoDoubleSpend ==
    \A u \in CreditUsers :
        LET k == CurrentCredits(backend, InitCredits[u])
            m == Cardinality(Generated(u))
        IN  ( /\ backend \in Backends
              /\ ~IsFile(backend) \/ InitCredits[u] = Undef
              /\ \A i \in DOMAIN creqs :
                    creqs[i].route = "generate" /\ creqs[i].userId = u )
            => /\ m <= k.n
               /\ CurrentCredits(backend, credits[u]) = Num(k.n - m)

\* C28: a credit is consumed only on success.  In every step of a POST
\* /api/generate-image request: when the step answers 200 the image service
\* call of the request was pending and the stored balance becomes the
\* balance the request read minus 1; every other step leaves the store
\* unchanged, the answer 500 after a failed or timed-out call included; and
\* a request answered 402 is answered straight from the read of a balance
\* below 1, before any call of the image service.
C28_ConsumedOnlyOnSuccess ==
    [][ \A i \in DOMAIN creqs :
          LET r == creqs[i]
              q == creqs'[i]
          IN  (r.route = "generate" /\ q # r) =>
                /\ q.status = 200 =>
                      /\ r.pc = "generate"
                      /\ CurrentCredits(backend, credits'[r.userId])
                            = Minus(r.cur, Num(1))
                /\ q.status # 200 => credits' = credits
                /\ q.status = 402 =>
                      /\ r.pc = "read"
                      /\ Less(CurrentCredits(backend,
                                  Lookup(credits, r.userId)), Num(1)) ]_vars

\* C28 witness: three requests of u1, who has one credit: the image service
\* failed for the first (500), the second got an image and the credit is
\* gone, the third was refused (402).
C28_Witness ==
    /\ backend = "kv" /\ Len(creqs) = 3
    /\ \A i \in 1..3 : creqs[i].route = "generate" /\ creqs[i].userId = "u1"
    /\ creqs[1].status = 500 /\ creqs[2].status = 200 /\ creqs[3].status = 402
    /\ credits["u1"] = Num(0)

\* a verified checkout.session.completed event of a session that is not paid
IsUnpaidEvent(r) ==
    IsSettlement(r) /\ Sessions[r.sid].payment_status # "paid"

\* C29: unpaid sessions are not credited.  When every webhook request of
\* the run is a verified settlement event of a session that is not paid:
\* in the revisions that test payment_status every such request is answered
\* 200 {received: true} at once and users, purchases and failedPayments are
\* as they were at the start; and in every revision no balance is above
\* what it was at the start.
C29_UnpaidNotCredited ==
    ( /\ variant \in WebhookVariants
      /\ reqs # <<>>
      /\ \A i \in DOMAIN reqs : IsUnpaidEvent(reqs[i]) )
    => /\ ChecksPaid(variant) =>
             /\ \A i \in DOMAIN reqs :
                   reqs[i].pc = "done" /\ reqs[i].status = 200
             /\ users = InitUsers
             /\ purchases = <<>>
             /\ failedPayments = <<>>
       /\ \A u \in UserIds :
             ~Less(Num(BalanceBefore(u)), OrZero(users[u].points))

====
